---- MODULE Spec2Model ----
(***************************************************************************)
(* Model of the zipatoserver settings store (src/src/settings.py).         *)
(*                                                                         *)
(* A Python str is a sequence of one-character strings, a text file is a   *)
(* sequence of lines (each line without its terminating newline), and a    *)
(* Python dict is a sequence of <<key, value>> pairs in insertion order.   *)
(* A Python value is a record [t |-> type, v |-> payload]; a raised        *)
(* exception is the record Exc(name).                                      *)
(*                                                                         *)
(* Line 188 of settings.py reads "program_path = (ya", which does not      *)
(* compile; the model reads it as "program_path = (", the statement the    *)
(* two other handlers have at lines 64 and 125.                            *)
(***************************************************************************)
EXTENDS Integers, Sequences, FiniteSets, TLC

VARIABLES
    fs,        \* the file system: path -> content (a sequence of lines) or NoFile
    attrs,     \* attributes set on the Settings class: name -> value
    load_res,  \* outcome of the last load_settings_from_yaml call
    w,         \* the frame of the running write_settings_to_file call
    seen,      \* what a concurrent reader last read at the settings path
    rendered,  \* outcome of the last render_settings_html call
    calls,     \* number of handler calls started so far
    fmt        \* the frame of a _format_value call and of its re-application

vars == <<fs, attrs, load_res, w, seen, rendered, calls, fmt>>

(***************************************************************************)
(* Bounds of the model.                                                    *)
(***************************************************************************)
\* longest generated raw string handed to _format_value
MaxLen == 3
\* most handler calls (load, write, render) in one behaviour
MaxCalls == 3
\* most top-level entries of a generated settings file
MaxEntries == 2

(***************************************************************************)
(* Python values.                                                          *)
(***************************************************************************)
PyStr(s) == [t |-> "str", v |-> s]
PyBool(b) == [t |-> "bool", v |-> b]
PyInt(n) == [t |-> "int", v |-> n]
PyNone == [t |-> "none", v |-> <<>>]
Exc(e) == [t |-> "exc", v |-> e]
IsExc(x) == x.t = "exc"

\* F applied to the value of x, computed once: the state a loop carries from
\* one iteration to the next is passed on as a value
Bind(x, F(_)) == CHOOSE r \in {F(v) : v \in {x}} : TRUE

(***************************************************************************)
(* Python str operations.                                                  *)
(***************************************************************************)
UpperCase == <<"A","B","C","D","E","F","G","H","I","J","K","L","M",
               "N","O","P","Q","R","S","T","U","V","W","X","Y","Z">>
LowerCase == <<"a","b","c","d","e","f","g","h","i","j","k","l","m",
               "n","o","p","q","r","s","t","u","v","w","x","y","z">>
Digits == <<"0","1","2","3","4","5","6","7","8","9">>

IndexIn(c, seq) == CHOOSE i \in DOMAIN seq : seq[i] = c
InSeq(c, seq) == \E i \in DOMAIN seq : seq[i] = c

\* str.lower()
lower(s) == [i \in DOMAIN s |->
               IF InSeq(s[i], UpperCase) THEN LowerCase[IndexIn(s[i], UpperCase)]
               ELSE s[i]]

IsSpace(c) == c \in {" ", "\t", "\n"}
IsDigit(c) == InSeq(c, Digits)
DigitVal(c) == IndexIn(c, Digits) - 1

RECURSIVE lstrip(_)
lstrip(s) == IF s # <<>> /\ IsSpace(Head(s)) THEN lstrip(Tail(s)) ELSE s
RECURSIVE rstrip(_)
rstrip(s) == IF s # <<>> /\ IsSpace(s[Len(s)])
             THEN rstrip(SubSeq(s, 1, Len(s) - 1)) ELSE s
\* str.strip()
strip(s) == rstrip(lstrip(s))

RECURSIVE DigitsVal(_)
DigitsVal(s) == IF s = <<>> THEN 0
                ELSE 10 * DigitsVal(SubSeq(s, 1, Len(s) - 1)) + DigitVal(s[Len(s)])
AllDigits(s) == s # <<>> /\ \A i \in DOMAIN s : IsDigit(s[i])

RECURSIVE NatToStr(_)
NatToStr(n) == IF n < 10 THEN <<Digits[n + 1]>>
               ELSE NatToStr(n \div 10) \o <<Digits[(n % 10) + 1]>>

\* str(value)
str(value) ==
    CASE value.t = "str" -> value.v
      [] value.t = "bool" -> IF value.v THEN <<"T","r","u","e">>
                             ELSE <<"F","a","l","s","e">>
      [] value.t = "int" -> IF value.v < 0 THEN <<"-">> \o NatToStr(0 - value.v)
                            ELSE NatToStr(value.v)
      [] value.t = "none" -> <<"N","o","n","e">>

\* int(value): surrounding whitespace and one sign are accepted before the
\* decimal digits of a str; a bool or an int converts; None is a TypeError.
int(value) ==
    CASE value.t = "int" -> value
      [] value.t = "bool" -> PyInt(IF value.v THEN 1 ELSE 0)
      [] value.t = "none" -> Exc("TypeError")
      [] value.t = "str" ->
           LET s == strip(value.v)
               signed == s # <<>> /\ Head(s) \in {"-", "+"}
               body == IF signed THEN Tail(s) ELSE s
           IN  IF AllDigits(body)
               THEN PyInt(IF signed /\ Head(s) = "-" THEN 0 - DigitsVal(body)
                        ELSE DigitsVal(body))
               ELSE Exc("ValueError")

(***************************************************************************)
(* Settings: class constants.                                              *)
(***************************************************************************)
__CONFIG_FILE == <<"z","i","p","a","t","o","s","e","r","v","e","r",".","c","o","n","f">>

WEB_API_PATH == <<"W","E","B","_","A","P","I","_","P","A","T","H">>
WEB_GUI_PATH == <<"W","E","B","_","G","U","I","_","P","A","T","H">>
WAKEONLAN_PATH == <<"W","A","K","E","O","N","L","A","N","_","P","A","T","H">>
PING_PATH == <<"P","I","N","G","_","P","A","T","H">>
SSH_PATH == <<"S","S","H","_","P","A","T","H">>
MESSAGE_LOG == <<"M","E","S","S","A","G","E","_","L","O","G">>
ERROR_LOG == <<"E","R","R","O","R","_","L","O","G">>
SSH_KEY_FILE == <<"S","S","H","_","K","E","Y","_","F","I","L","E">>

__PATH_WITH_SLASH_PARAMETERS ==
    {WEB_API_PATH, WEB_GUI_PATH, WAKEONLAN_PATH, PING_PATH, SSH_PATH}
__PATH_WITHOUT_SLASH_PARAMETERS == {MESSAGE_LOG, ERROR_LOG, SSH_KEY_FILE}

(***************************************************************************)
(* Settings._format_path and Settings._format_value.                       *)
(***************************************************************************)
\* _format_path on a str
format_path_str(path, slash) ==
    IF Len(path) = 0 THEN path
    ELSE IF slash /\ path[Len(path)] # "/" THEN path \o <<"/">>
    ELSE IF ~slash /\ path[Len(path)] = "/" THEN SubSeq(path, 1, Len(path) - 1)
    ELSE path

\* len(path) raises TypeError on a bool, an int and None
_format_path(path, slash) ==
    IF path.t = "str" THEN PyStr(format_path_str(path.v, slash))
    ELSE Exc("TypeError")

yes_str == <<"y","e","s">>
true_str == <<"t","r","u","e">>
no_str == <<"n","o">>
false_str == <<"f","a","l","s","e">>

_format_value(param, value) ==
    IF param \in __PATH_WITH_SLASH_PARAMETERS THEN _format_path(value, TRUE)
    ELSE IF param \in __PATH_WITHOUT_SLASH_PARAMETERS THEN _format_path(value, FALSE)
    ELSE IF lower(str(value)) = yes_str \/ lower(str(value)) = true_str
         THEN PyBool(TRUE)
    ELSE IF lower(str(value)) = no_str \/ lower(str(value)) = false_str
         THEN PyBool(FALSE)
    ELSE IF IsExc(int(value)) THEN value
    ELSE int(value)

(***************************************************************************)
(* Python dict: a sequence of <<key, value>> pairs, keys unique, in        *)
(* insertion order.                                                        *)
(***************************************************************************)
Dict(pairs) == [t |-> "dict", v |-> pairs]
dict_keys(d) == {d[i][1] : i \in DOMAIN d}
dict_get(d, k) == d[CHOOSE i \in DOMAIN d : d[i][1] = k][2]
\* d[k] = v: an existing key keeps its place
dict_set(d, k, v) ==
    IF k \in dict_keys(d)
    THEN [i \in DOMAIN d |-> IF d[i][1] = k THEN <<k, v>> ELSE d[i]]
    ELSE Append(d, <<k, v>>)
SelectPairs(d, Keep(_)) == SelectSeq(d, LAMBDA p : Keep(p[1]))
\* del d[k]
dict_del(d, k) == SelectPairs(d, LAMBDA x : x # k)
\* the mapping as a set of pairs: equality key by key and value by value
dict_items(d) == {d[i] : i \in DOMAIN d}

(***************************************************************************)
(* PyYAML, restricted to the documents of a settings file: a block mapping *)
(* of top-level keys to plain or single-quoted scalars, comment lines,     *)
(* blank lines, and the flow form {} of the empty mapping.                 *)
(***************************************************************************)
YamlTrue == {<<"y","e","s">>, <<"Y","e","s">>, <<"Y","E","S">>,
             <<"t","r","u","e">>, <<"T","r","u","e">>, <<"T","R","U","E">>,
             <<"o","n">>, <<"O","n">>, <<"O","N">>}
YamlFalse == {<<"n","o">>, <<"N","o">>, <<"N","O">>,
              <<"f","a","l","s","e">>, <<"F","a","l","s","e">>,
              <<"F","A","L","S","E">>,
              <<"o","f","f">>, <<"O","f","f">>, <<"O","F","F">>}
YamlNull == {<<>>, <<"~">>, <<"n","u","l","l">>, <<"N","u","l","l">>,
             <<"N","U","L","L">>}

\* the resolver's decimal int: [-+]?(0|[1-9][0-9]*)
IsYamlInt(s) ==
    LET body == IF s # <<>> /\ Head(s) \in {"-", "+"} THEN Tail(s) ELSE s
    IN  AllDigits(body) /\ (body = <<"0">> \/ body[1] # "0")

\* the implicit resolver applied to a plain scalar
resolve_plain(s) ==
    IF s \in YamlTrue THEN PyBool(TRUE)
    ELSE IF s \in YamlFalse THEN PyBool(FALSE)
    ELSE IF s \in YamlNull THEN PyNone
    ELSE IF IsYamlInt(s) THEN int(PyStr(s))
    ELSE PyStr(s)

IsQuoted(s) == Len(s) >= 2 /\ s[1] = "'" /\ s[Len(s)] = "'"
FlowIndicators == {"{", "}", "[", "]", ","}
StartIndicators == FlowIndicators \cup
    {"#", "'", "&", "*", "!", "|", ">", "%", "@"}

\* the scalar after "key:" as the constructor builds it
construct_scalar(s) ==
    IF IsQuoted(s) THEN PyStr(SubSeq(s, 2, Len(s) - 1)) ELSE resolve_plain(s)

\* the ":" ending a block mapping key: the first one followed by a space or
\* by the end of the line (0: none)
KeyColon(line) ==
    LET cs == {i \in DOMAIN line :
                 line[i] = ":" /\ (i = Len(line) \/ line[i + 1] = " ")}
    IN  IF cs = {} THEN 0 ELSE CHOOSE i \in cs : \A j \in cs : i <= j

\* one line of the document: skipped, the empty flow mapping, an entry, or
\* something the scanner or parser rejects
parse_line(line) ==
    IF strip(line) = <<>> \/ Head(lstrip(line)) = "#" THEN [kind |-> "skip"]
    ELSE IF line = <<"{", "}">> THEN [kind |-> "empty_map"]
    ELSE IF IsSpace(Head(line)) \/ Head(line) \in StartIndicators
            \/ KeyColon(line) < 2
         THEN [kind |-> "error"]
    ELSE LET c == KeyColon(line)
             scalar == strip(SubSeq(line, c + 1, Len(line)))
         IN  IF scalar # <<>> /\ ~IsQuoted(scalar)
                /\ Head(scalar) \in StartIndicators
             THEN [kind |-> "error"]
             ELSE [kind |-> "entry", key |-> SubSeq(line, 1, c - 1),
                   value |-> construct_scalar(scalar)]

RECURSIVE load_entries(_, _)
load_entries(parsed, d) ==
    IF parsed = <<>> THEN d
    ELSE load_entries(Tail(parsed),
                      dict_set(d, Head(parsed).key, Head(parsed).value))

\* yaml.load(f) on the lines of f: a dict, None for a document without
\* content, or a YAMLError
yaml_load(lines) ==
    Bind(SelectSeq([i \in DOMAIN lines |-> parse_line(lines[i])],
                   LAMBDA p : p.kind # "skip"),
         LAMBDA parsed :
            LET kinds == {parsed[i].kind : i \in DOMAIN parsed}
            IN  IF parsed = <<>> THEN PyNone
                ELSE IF kinds = {"entry"} THEN Dict(load_entries(parsed, <<>>))
                ELSE IF kinds = {"empty_map"} /\ Len(parsed) = 1 THEN Dict(<<>>)
                ELSE Exc("YAMLError"))

\* characters in code point order
CodeOrder == <<"\t", "\n", " ", "#", "'", "+", ",", "-", ".", "/">> \o Digits
             \o <<":">> \o UpperCase \o <<"[", "]", "_">> \o LowerCase
             \o <<"{", "}", "~">>
Ord(c) == IndexIn(c, CodeOrder)
RECURSIVE StrLess(_, _)
StrLess(a, b) ==
    IF b = <<>> THEN FALSE
    ELSE IF a = <<>> THEN TRUE
    ELSE IF Head(a) # Head(b) THEN Ord(Head(a)) < Ord(Head(b))
    ELSE StrLess(Tail(a), Tail(b))

\* sorted(mapping.items()) of the representer
RECURSIVE sorted_items(_)
sorted_items(items) ==
    Bind(items, LAMBDA d :
        IF d = <<>> THEN <<>>
        ELSE LET m == CHOOSE i \in DOMAIN d :
                        \A j \in DOMAIN d : j = i \/ StrLess(d[i][1], d[j][1])
             IN  <<d[m]>> \o sorted_items(dict_del(d, d[m][1])))

\* whether the emitter may write the str as a plain scalar
plain_allowed(s) ==
    /\ s # <<>>
    /\ resolve_plain(s) = PyStr(s)
    /\ ~IsSpace(s[1]) /\ ~IsSpace(s[Len(s)])
    /\ s[1] \notin StartIndicators
    /\ ~(s[1] \in {"-", "?", ":"} /\ (Len(s) = 1 \/ s[2] = " "))
    /\ s[Len(s)] # ":"
    /\ \A i \in 1..(Len(s) - 1) :
          ~(s[i] = ":" /\ s[i + 1] = " ") /\ ~(s[i] = " " /\ s[i + 1] = "#")

represent_str(s) == IF plain_allowed(s) THEN s ELSE <<"'">> \o s \o <<"'">>

represent_scalar(value) ==
    CASE value.t = "str" -> represent_str(value.v)
      [] value.t = "bool" -> IF value.v THEN true_str ELSE false_str
      [] value.t = "int" -> str(value)
      [] value.t = "none" -> <<"n","u","l","l">>

\* yaml.dump(d, default_flow_style=False, indent=4).split('\n'): the text
\* ends with a newline, so the list ends with an empty string
yaml_dump_split(d) ==
    Bind(sorted_items(d), LAMBDA items :
        IF items = <<>> THEN << <<"{", "}">>, <<>> >>
        ELSE [i \in 1..Len(items) |->
                 represent_str(items[i][1]) \o <<":", " ">>
                     \o represent_scalar(items[i][2])] \o << <<>> >>)

(***************************************************************************)
(* The file system and the settings path.                                  *)
(***************************************************************************)
NoFile == [exists |-> FALSE, lines |-> <<>>]
File(lines) == [exists |-> TRUE, lines |-> lines]

\* os.path.dirname(os.path.abspath(__file__)) + '/'
ProgramPath == <<"/", "o", "p", "t", "/">>

_get_config_file(settings_path, program_path) ==
    IF settings_path # PyNone
    THEN _format_path(settings_path, TRUE).v \o __CONFIG_FILE
    ELSE program_path \o __CONFIG_FILE

\* every handler is called with the default settings_path=None
ConfigFile == _get_config_file(PyNone, ProgramPath)
\* the text is written to the settings path itself
TmpInPlace(config_file) == config_file
\* config_file+'~'
TmpFile(config_file) == config_file \o <<"~">>
Paths == {ConfigFile, TmpFile(ConfigFile)}

\* file.readlines(): every line keeps its newline
readlines(lines) == [i \in DOMAIN lines |-> lines[i] \o <<"\n">>]

(***************************************************************************)
(* Settings.load_settings_from_yaml.                                       *)
(***************************************************************************)
PROGRAM_PATH == <<"P","R","O","G","R","A","M","_","P","A","T","H">>

\* for constant, value in constants.items(): setattr(Settings, constant,
\* _format_value(constant, value)), stopping at the first exception
RECURSIVE setattr_items(_, _)
setattr_items(a, items) ==
    IF items = <<>> THEN [attrs |-> a, exc |-> "none"]
    ELSE Bind(_format_value(Head(items)[1], Head(items)[2]), LAMBDA fv :
             IF IsExc(fv) THEN [attrs |-> a, exc |-> fv.v]
             ELSE setattr_items(dict_set(a, Head(items)[1], fv), Tail(items)))

\* {constant: _format_value(constant, value)} for the items formatting accepts
RECURSIVE format_items(_)
format_items(items) ==
    IF items = <<>> THEN <<>>
    ELSE Bind(_format_value(Head(items)[1], Head(items)[2]), LAMBDA fv :
             IF IsExc(fv) THEN <<>>
             ELSE <<<<Head(items)[1], fv>>>> \o format_items(Tail(items)))

\* the whole call: the attributes afterwards, the exception raised ("none"
\* when it returns), and the mapping it installed
load_settings_from_yaml(a, file) ==
    Bind(<<dict_set(a, PROGRAM_PATH, PyStr(ProgramPath)), yaml_load(file.lines)>>,
         LAMBDA st :
            LET a1 == st[1]
                constants == st[2]
            IN  IF ~file.exists
                THEN [attrs |-> a1, exc |-> "FileNotFoundError", constants |-> <<>>]
                ELSE IF IsExc(constants)
                THEN [attrs |-> a1, exc |-> constants.v, constants |-> <<>>]
                ELSE IF constants.t # "dict"
                THEN [attrs |-> a1, exc |-> "AttributeError", constants |-> <<>>]
                ELSE Bind(setattr_items(a1, constants.v), LAMBDA r :
                         [attrs |-> r.attrs, exc |-> r.exc,
                          constants |-> format_items(constants.v)]))

(***************************************************************************)
(* Settings.write_settings_to_file: its computations.                      *)
(***************************************************************************)
\* re.match('(.+?):.*', line): group(1), or None
match_param(line) ==
    LET cs == {i \in 2..Len(line) :
                 line[i] = ":" /\ \A j \in 1..(i - 1) : line[j] # "\n"}
    IN  IF cs = {} THEN PyNone
        ELSE PyStr(SubSeq(line, 1, (CHOOSE i \in cs : \A j \in cs : i <= j) - 1))

\* the loop without "comment = []" after an association
RECURSIVE get_all_comments_keep(_, _, _, _)
get_all_comments_keep(lines, i, comment, param_comments) ==
    IF i > Len(lines) THEN Dict(param_comments)
    ELSE IF Len(lines[i]) > 0 /\ lines[i][1] = "#"
    THEN LET comment1 == Append(comment, strip(lines[i]))
         IN  IF i + 1 > Len(lines) THEN Exc("IndexError")
             ELSE IF lines[i + 1][1] # "#"
             THEN LET m == match_param(lines[i + 1])
                  IN  IF m = PyNone THEN Exc("AttributeError")
                      ELSE get_all_comments_keep(lines, i + 1, comment1,
                               dict_set(param_comments, m.v, comment1))
             ELSE get_all_comments_keep(lines, i + 1, comment1, param_comments)
    ELSE get_all_comments_keep(lines, i + 1, comment, param_comments)

\* the "Get all comments" loop from index i on, over readlines() output
RECURSIVE get_all_comments(_, _, _, _)
get_all_comments(lines, i, comment, param_comments) ==
    IF i > Len(lines) THEN Dict(param_comments)
    ELSE IF Len(lines[i]) > 0 /\ lines[i][1] = "#"
    THEN LET comment1 == Append(comment, strip(lines[i]))
         IN  IF i + 1 > Len(lines) THEN Exc("IndexError")
             ELSE IF lines[i + 1][1] # "#"
             THEN LET m == match_param(lines[i + 1])
                  IN  IF m = PyNone THEN Exc("AttributeError")
                      ELSE get_all_comments(lines, i + 1, <<>>,
                                            dict_set(param_comments, m.v, comment1))
             ELSE get_all_comments(lines, i + 1, comment1, param_comments)
    ELSE get_all_comments(lines, i + 1, comment, param_comments)

\* the "Set correct type of parameters" loop
RECURSIVE format_settings(_, _)
format_settings(settings_json, i) ==
    Bind(settings_json, LAMBDA d :
        IF i > Len(d) THEN Dict(d)
        ELSE Bind(_format_value(d[i][1], d[i][2]), LAMBDA fv :
                 IF IsExc(fv) THEN fv
                 ELSE format_settings([d EXCEPT ![i] = <<d[i][1], fv>>], i + 1)))

\* re.match('\A(\S+):.*\Z', line): group(1), or None
match_top_level_param(line) ==
    LET cs == {i \in 2..Len(line) :
                 /\ line[i] = ":"
                 /\ \A j \in 1..(i - 1) : ~IsSpace(line[j])
                 /\ \A j \in (i + 1)..Len(line) : line[j] # "\n"}
    IN  IF cs = {} THEN PyNone
        ELSE PyStr(SubSeq(line, 1, (CHOOSE i \in cs : \A j \in cs : j <= i) - 1))

\* the "Create YAML with comments" loop from index i on
\* the pass without "if param == test_param": the first comment block left
\* goes above whichever key comes next
insert_at_any(settings_list, i, param_comments) ==
    LET top_level_param == match_top_level_param(settings_list[i])
        found == param_comments # <<>>
        comments == IF found THEN param_comments[1][2] ELSE <<>>
    IN  IF top_level_param = PyNone
        THEN <<settings_list, i + 1, param_comments>>
        ELSE <<SubSeq(settings_list, 1, i - 1) \o << <<>> >> \o comments
                   \o SubSeq(settings_list, i, Len(settings_list)),
               i + 1 + Len(comments) + 1,
               IF found THEN Tail(param_comments) ELSE param_comments>>

\* one pass of the loop body at index i: the list, the index and the
\* comments left afterwards
insert_at(settings_list, i, param_comments) ==
    LET top_level_param == match_top_level_param(settings_list[i])
        param == top_level_param.v
        found == param \in dict_keys(param_comments)
        comments == IF found THEN dict_get(param_comments, param) ELSE <<>>
    IN  IF top_level_param = PyNone
        THEN <<settings_list, i + 1, param_comments>>
        ELSE <<SubSeq(settings_list, 1, i - 1) \o << <<>> >> \o comments
                   \o SubSeq(settings_list, i, Len(settings_list)),
               i + 1 + Len(comments) + 1,
               IF found THEN dict_del(param_comments, param) ELSE param_comments>>

RECURSIVE insert_comments(_, _, _)
insert_comments(settings_list, i, param_comments) ==
    Bind(<<settings_list, i, param_comments>>, LAMBDA st :
        IF st[2] > Len(st[1]) THEN st[1]
        ELSE Bind(insert_at(st[1], st[2], st[3]), LAMBDA nx :
                 insert_comments(nx[1], nx[2], nx[3])))

\* '\n'.join(settings_list)[1:], as the lines of the text written; the list
\* ends with the empty string, so every line written ends with a newline
join_drop_first(settings_list) ==
    LET body == SubSeq(settings_list, 1, Len(settings_list) - 1)
    IN  IF body = <<>> THEN <<>>
        ELSE IF Head(body) = <<>> THEN Tail(body)
        ELSE <<Tail(Head(body))>> \o Tail(body)

\* the text the call writes for the old lines and the mapping, or the
\* exception one of the computations raises
settings_yaml(old_lines, settings_json) ==
    Bind(<<get_all_comments(readlines(old_lines), 1, <<>>, <<>>),
           format_settings(settings_json, 1)>>,
         LAMBDA st :
            LET param_comments == st[1]
                formatted == st[2]
            IN  IF IsExc(param_comments) THEN param_comments
                ELSE IF IsExc(formatted) THEN formatted
                ELSE Dict(join_drop_first(
                         insert_comments(yaml_dump_split(formatted.v), 1,
                                         param_comments.v))))

(***************************************************************************)
(* Settings.render_settings_html: what it hands to render_template.        *)
(***************************************************************************)
\* re.match('\A{}:.*'.format(key), line)
match_key(key, line) ==
    Len(line) > Len(key) /\ SubSeq(line, 1, Len(key)) = key
        /\ line[Len(key) + 1] = ":"

\* for key in constants.keys(): a matching key becomes the current constant
\* and its comment is reset
RECURSIVE test_keys(_, _, _)
test_keys(keys, line, state) ==
    Bind(state, LAMBDA st :
        IF keys = <<>> THEN st
        ELSE test_keys(Tail(keys), line,
                       IF match_key(Head(keys), line)
                       THEN [st EXCEPT !.constant = PyStr(Head(keys)),
                                       !.comments =
                                           dict_set(st.comments, Head(keys), <<>>)]
                       ELSE st))

\* the "Load comments from disk" loop, from line i down to the first;
\* st.constant is None while the name is unbound
\* the "Test/set more comments" branch on one line
more_comments(line, st) ==
    IF line[1] # "#" THEN st
    ELSE IF st.constant = PyNone THEN [st EXCEPT !.exc = "UnboundLocalError"]
    ELSE IF st.constant.v \notin dict_keys(st.comments)
    THEN [st EXCEPT !.exc = "KeyError"]
    ELSE [st EXCEPT !.comments =
             dict_set(st.comments, st.constant.v,
                      strip(Tail(line)) \o <<" ">>
                          \o dict_get(st.comments, st.constant.v))]

RECURSIVE load_comments(_, _, _, _)
load_comments(lines, i, keys, state) ==
    Bind(state, LAMBDA st :
        IF i < 1 \/ st.exc # "none" THEN st
        ELSE Bind(more_comments(lines[i], st), LAMBDA st1 :
                 IF st1.exc # "none" THEN st1
                 ELSE load_comments(lines, i - 1, keys,
                                    test_keys(keys, lines[i], st1))))

\* the call raises e: nothing is handed to render_template
RenderRaises(e) == [exc |-> e, constants |-> <<>>, comments |-> <<>>]

\* the comments of the file for the formatted constants; the name constant
\* is left bound to the last key by the formatting loop
comments_from_disk(lines, constants) ==
    Bind([i \in DOMAIN constants |-> constants[i][1]], LAMBDA keys :
        load_comments(lines, Len(lines), keys,
                      [exc |-> "none", comments |-> <<>>,
                       constant |-> IF keys = <<>> THEN PyNone
                                    ELSE PyStr(keys[Len(keys)])]))

render_settings_html(a, file) ==
    Bind(yaml_load(file.lines), LAMBDA loaded :
        IF ~file.exists THEN RenderRaises("FileNotFoundError")
        ELSE IF IsExc(loaded) THEN RenderRaises(loaded.v)
        ELSE IF loaded.t # "dict" THEN RenderRaises("AttributeError")
        ELSE Bind(format_settings(loaded.v, 1), LAMBDA constants :
                 IF IsExc(constants) THEN RenderRaises(constants.v)
                 ELSE Bind(comments_from_disk(readlines(file.lines), constants.v),
                           LAMBDA st :
                              IF st.exc # "none" THEN RenderRaises(st.exc)
                              ELSE IF WEB_API_PATH \notin dict_keys(a)
                              THEN RenderRaises("AttributeError")
                              ELSE [exc |-> "none", constants |-> constants.v,
                                    comments |-> st.comments])))

(***************************************************************************)
(* Inputs: the settings files the program may start from, and the mappings *)
(* a caller may hand to write_settings_to_file.                            *)
(***************************************************************************)
ka == <<"a">>
kb == <<"b">>
Keys == {ka, kb, ERROR_LOG, WEB_API_PATH}

\* the scalar text after "key: " in a generated file, in two variants
RawValue(k, variant) ==
    CASE k = ka -> IF variant = 1 THEN <<"1">> ELSE <<"'", "1", "2", "'">>
      [] k = kb -> IF variant = 1 THEN <<"y","e","s">> ELSE <<"'", "n", "o", "'">>
      [] k = ERROR_LOG -> IF variant = 1 THEN <<"x">> ELSE <<"x", "/", "/">>
      [] k = WEB_API_PATH -> IF variant = 1 THEN <<"x">> ELSE <<"5">>

KeyLine(k, variant) == k \o <<":", " ">> \o RawValue(k, variant)
\* the j-th comment line written above key k; the second ends with a space
CommentLine(k, j) ==
    IF j = 1 THEN <<"#", " ">> \o k ELSE <<"#", " ">> \o k \o <<" ", "2", " ">>

KeySeqs == {ks \in UNION {[1..n -> Keys] : n \in 0..MaxEntries} :
              \A i, j \in DOMAIN ks : i # j => ks[i] # ks[j]}
Styles == {"none", "all", "all2", "last", "detached", "trailing"}

\* the lines of entry i of a generated file
EntryLines(ks, i, variant, style) ==
    LET key_line == <<KeyLine(ks[i], variant)>>
    IN  CASE style = "all" ->
               (IF i > 1 THEN << <<>> >> ELSE <<>>)
                   \o <<CommentLine(ks[i], 1)>> \o key_line
          [] style = "all2" ->
               <<CommentLine(ks[i], 1), CommentLine(ks[i], 2)>> \o key_line
          [] style = "last" /\ i = Len(ks) ->
               <<CommentLine(ks[i], 1)>> \o key_line
          [] style = "detached" /\ i = 1 ->
               <<CommentLine(ks[i], 1), <<>> >> \o key_line
          [] style = "trailing" /\ i = Len(ks) ->
               key_line \o <<CommentLine(ks[i], 1)>>
          [] OTHER -> key_line

RECURSIVE FileLines(_, _, _, _)
FileLines(ks, i, variant, style) ==
    IF i > Len(ks) THEN <<>>
    ELSE EntryLines(ks, i, variant, style) \o FileLines(ks, i + 1, variant, style)

GeneratedFiles ==
    {File(FileLines(ks, 1, variant, style)) :
        ks \in KeySeqs, variant \in {1, 2}, style \in Styles}
InitFiles == GeneratedFiles \cup {File(<< <<"{", "}">> >>), NoFile}

\* mappings handed to write_settings_to_file besides a loaded one
JsonInputs ==
    { << <<kb, PyBool(TRUE)>>, <<ka, PyStr(<<"1">>)>> >>,
      << <<WEB_API_PATH, PyStr(<<"x">>)>>, <<ERROR_LOG, PyStr(<<"x", "/">>)>> >>,
      << <<ka, PyStr(<<"n", "o">>)>>, <<WEB_API_PATH, PyInt(5)>> >>,
      <<>> }

(***************************************************************************)
(* State.                                                                  *)
(***************************************************************************)
\* ok_so_far: no load has raised so far
NoLoad == [exc |-> "never", constants |-> <<>>, before |-> <<>>,
           file |-> NoFile, call |-> 0, ok_so_far |-> TRUE]
NoRender == [exc |-> "never", constants |-> <<>>, comments |-> <<>>,
             file |-> NoFile]
NoRead == [read |-> FALSE, file |-> NoFile, old |-> NoFile, settings_json |-> <<>>]
\* pc: idle, read, extracted, formatted, dumped, writing, done, failed
WIdle == [pc |-> "idle", exc |-> "none", call |-> 0, roundtrip |-> FALSE,
          settings_json |-> <<>>, old |-> NoFile, lines |-> <<>>,
          param_comments |-> <<>>, formatted |-> <<>>, settings_yaml |-> <<>>,
          n |-> 0]
FmtIdle == [pc |-> "idle", param |-> <<>>, value |-> PyNone,
            once |-> PyNone, twice |-> PyNone]

InitWith(files) ==
    /\ \E f \in files : fs = [p \in Paths |-> IF p = ConfigFile THEN f ELSE NoFile]
    /\ attrs = <<>>
    /\ load_res = NoLoad
    /\ w = WIdle
    /\ seen = NoRead
    /\ rendered = NoRender
    /\ calls = 0
    /\ fmt = FmtIdle

(***************************************************************************)
(* Handlers run to completion: load, render, and write as one step.        *)
(***************************************************************************)
WriterQuiet == w.pc \in {"idle", "done", "failed"}

\* Settings.load_settings_from_yaml()
Load ==
    /\ calls < MaxCalls
    /\ \E r \in {load_settings_from_yaml(attrs, fs[ConfigFile])} :
           /\ attrs' = r.attrs
           /\ load_res' = [exc |-> r.exc, constants |-> r.constants,
                           before |-> attrs, file |-> fs[ConfigFile],
                           call |-> calls + 1,
                           ok_so_far |-> load_res.ok_so_far /\ r.exc = "none"]
    /\ calls' = calls + 1
    /\ UNCHANGED <<fs, w, seen, rendered, fmt>>

\* Settings.render_settings_html()
Render ==
    /\ calls < MaxCalls
    /\ \E r \in {render_settings_html(attrs, fs[ConfigFile])} :
           rendered' = [exc |-> r.exc, constants |-> r.constants,
                        comments |-> r.comments, file |-> fs[ConfigFile]]
    /\ calls' = calls + 1
    /\ UNCHANGED <<fs, attrs, load_res, w, seen, fmt>>

\* the mappings a write may be called with: an input mapping, or the one the
\* last load installed
WriteArgs ==
    JsonInputs \cup (IF load_res.exc = "none" THEN {load_res.constants} ELSE {})

\* the frame of a call that has opened and read the settings file
Opened(settings_json) ==
    [WIdle EXCEPT !.pc = "read", !.call = calls + 1,
                  !.roundtrip = /\ load_res.exc = "none"
                                /\ settings_json = load_res.constants
                                /\ load_res.file = fs[ConfigFile],
                  !.settings_json = settings_json,
                  !.old = fs[ConfigFile],
                  !.lines = readlines(fs[ConfigFile].lines)]
Failed(frame, e) == [frame EXCEPT !.pc = "failed", !.exc = e]

\* Settings.write_settings_to_file(settings_json), with no other process
\* running between its steps
WriteCall ==
    /\ calls < MaxCalls
    /\ WriterQuiet
    /\ \E settings_json \in WriteArgs :
         IF ~fs[ConfigFile].exists
         THEN /\ w' = Failed([Opened(settings_json) EXCEPT !.lines = <<>>],
                             "FileNotFoundError")
              /\ fs' = fs
         ELSE \E frame \in {Opened(settings_json)},
                 param_comments \in
                     {get_all_comments(readlines(fs[ConfigFile].lines), 1, <<>>, <<>>)},
                 formatted \in {format_settings(settings_json, 1)},
                 text \in {settings_yaml(fs[ConfigFile].lines, settings_json)} :
                  IF IsExc(text)
                  THEN /\ w' = Failed(
                                 [frame EXCEPT !.param_comments =
                                     IF IsExc(param_comments) THEN <<>>
                                     ELSE param_comments.v],
                                 text.v)
                       /\ fs' = fs
                  ELSE /\ w' = [frame EXCEPT !.pc = "done",
                                             !.param_comments = param_comments.v,
                                             !.formatted = formatted.v,
                                             !.settings_yaml = text.v,
                                             !.n = Len(text.v)]
                       /\ fs' = [fs EXCEPT ![ConfigFile] = File(text.v),
                                           ![TmpFile(ConfigFile)] = NoFile]
    /\ calls' = calls + 1
    /\ UNCHANGED <<attrs, load_res, seen, rendered, fmt>>

(***************************************************************************)
(* write_settings_to_file step by step, beside a concurrent reader of the  *)
(* settings path.                                                          *)
(***************************************************************************)
\* open(config_file, 'r') and readlines(); what a reader saw during an earlier
\* call is forgotten
WriteOpen ==
    /\ calls < MaxCalls
    /\ WriterQuiet
    /\ \E settings_json \in WriteArgs :
         w' = IF fs[ConfigFile].exists THEN Opened(settings_json)
              ELSE Failed([Opened(settings_json) EXCEPT !.lines = <<>>],
                          "FileNotFoundError")
    /\ calls' = calls + 1
    /\ seen' = NoRead
    /\ UNCHANGED <<fs, attrs, load_res, rendered, fmt>>

\* "Get all comments"
WriteComments ==
    /\ w.pc = "read"
    /\ \E param_comments \in {get_all_comments(w.lines, 1, <<>>, <<>>)} :
         w' = IF IsExc(param_comments) THEN Failed(w, param_comments.v)
              ELSE [w EXCEPT !.pc = "extracted",
                             !.param_comments = param_comments.v]
    /\ UNCHANGED <<fs, attrs, load_res, seen, rendered, calls, fmt>>

\* "Set correct type of parameters"
WriteFormat ==
    /\ w.pc = "extracted"
    /\ \E formatted \in {format_settings(w.settings_json, 1)} :
         w' = IF IsExc(formatted) THEN Failed(w, formatted.v)
              ELSE [w EXCEPT !.pc = "formatted", !.formatted = formatted.v]
    /\ UNCHANGED <<fs, attrs, load_res, seen, rendered, calls, fmt>>

\* "Create YAML with comments"
WriteDump ==
    /\ w.pc = "formatted"
    /\ w' = [w EXCEPT !.pc = "dumped",
                      !.settings_yaml =
                          join_drop_first(
                              insert_comments(yaml_dump_split(w.formatted), 1,
                                              w.param_comments))]
    /\ UNCHANGED <<fs, attrs, load_res, seen, rendered, calls, fmt>>

\* open(config_file+'~', 'w'): the temporary file is created or truncated
WriteTmpOpen ==
    /\ w.pc = "dumped"
    /\ fs' = [fs EXCEPT ![TmpFile(ConfigFile)] = File(<<>>)]
    /\ w' = [w EXCEPT !.pc = "writing", !.n = 0]
    /\ UNCHANGED <<attrs, load_res, seen, rendered, calls, fmt>>

\* file_obj.writelines(settings_yaml): the text reaches the file piece by
\* piece, here line by line
WriteTmpLine ==
    /\ w.pc = "writing"
    /\ w.n < Len(w.settings_yaml)
    /\ fs' = [fs EXCEPT ![TmpFile(ConfigFile)] =
                 File(Append(fs[TmpFile(ConfigFile)].lines, w.settings_yaml[w.n + 1]))]
    /\ w' = [w EXCEPT !.n = w.n + 1]
    /\ UNCHANGED <<attrs, load_res, seen, rendered, calls, fmt>>

\* the rename does not wait for the text to be written out
WriteRenameEarly ==
    /\ w.pc = "writing"
    /\ fs' = [p \in Paths |-> IF p = ConfigFile THEN fs[TmpFile(ConfigFile)]
                              ELSE NoFile]
    /\ w' = [w EXCEPT !.pc = "done"]
    /\ UNCHANGED <<attrs, load_res, seen, rendered, calls, fmt>>

\* os.rename(config_file+'~', config_file)
WriteRename ==
    /\ w.pc = "writing"
    /\ w.n = Len(w.settings_yaml)
    /\ fs' = [p \in Paths |-> IF p = ConfigFile THEN fs[TmpFile(ConfigFile)]
                              ELSE NoFile]
    /\ w' = [w EXCEPT !.pc = "done"]
    /\ UNCHANGED <<attrs, load_res, seen, rendered, calls, fmt>>

\* opening the temporary file or writing to it raises OSError
WriteOSError ==
    /\ w.pc \in {"dumped", "writing"}
    /\ w' = Failed(w, "OSError")
    /\ UNCHANGED <<fs, attrs, load_res, seen, rendered, calls, fmt>>

\* another process opens the settings path and reads it
ReaderRead ==
    /\ w.pc # "idle"
    /\ seen' = [read |-> TRUE, file |-> fs[ConfigFile], old |-> w.old,
                settings_json |-> w.settings_json]
    /\ UNCHANGED <<fs, attrs, load_res, w, rendered, calls, fmt>>

\* the files a stepwise write starts from
ConcurrentFiles ==
    {File(FileLines(ks, 1, 1, style)) :
        ks \in KeySeqs, style \in {"last", "detached"}} \cup {NoFile}

Init == InitWith(ConcurrentFiles)
Next ==
    \/ Load
    \/ WriteOpen
    \/ WriteComments
    \/ WriteFormat
    \/ WriteDump
    \/ WriteTmpOpen
    \/ WriteTmpLine
    \/ WriteRename
    \/ WriteOSError
    \/ ReaderRead
Spec == Init /\ [][Next]_vars

(***************************************************************************)
(* The handlers called one after the other.                                *)
(***************************************************************************)
NextSeq == Load \/ Render \/ WriteCall
InitSeq == InitWith(InitFiles)
SpecSeq == InitSeq /\ [][NextSeq]_vars

(***************************************************************************)
(* _format_value applied to a raw value, and again to its result.          *)
(***************************************************************************)
FmtChars == {"/", "x", "1", "-"}
FmtWords == {<<"y","e","s">>, <<"Y","e","s">>, <<"T","R","U","E">>,
             <<"n","o">>, <<"N","o">>, <<"F","a","l","s","e">>,
             <<"y","e","s","/">>, <<" ","1","2">>}
FmtStrings == UNION {[1..n -> FmtChars] : n \in 0..MaxLen} \cup FmtWords
FmtValues == {PyStr(s) : s \in FmtStrings}
                 \cup {PyBool(TRUE), PyBool(FALSE), PyNone}
                 \cup {PyInt(n) : n \in {-1, 0, 12}}
FmtParams ==
    __PATH_WITH_SLASH_PARAMETERS \cup __PATH_WITHOUT_SLASH_PARAMETERS \cup {ka}

InitFormat ==
    /\ fs = [p \in Paths |-> NoFile]
    /\ attrs = <<>>
    /\ load_res = NoLoad
    /\ w = WIdle
    /\ seen = NoRead
    /\ rendered = NoRender
    /\ calls = 0
    /\ \E param \in FmtParams, value \in FmtValues :
         fmt = [FmtIdle EXCEPT !.pc = "call", !.param = param, !.value = value]

\* Settings._format_value(param, value)
FormatValue ==
    /\ fmt.pc = "call"
    /\ fmt' = [fmt EXCEPT !.pc = "once",
                          !.once = _format_value(fmt.param, fmt.value)]
    /\ UNCHANGED <<fs, attrs, load_res, w, seen, rendered, calls>>

\* Settings._format_value(param, _format_value(param, value))
FormatAgain ==
    /\ fmt.pc = "once"
    /\ ~IsExc(fmt.once)
    /\ fmt' = [fmt EXCEPT !.pc = "twice",
                          !.twice = _format_value(fmt.param, fmt.once)]
    /\ UNCHANGED <<fs, attrs, load_res, w, seen, rendered, calls>>

NextFormat == FormatValue \/ FormatAgain
SpecFormat == InitFormat /\ [][NextFormat]_vars

(***************************************************************************)
(* What a settings file says, read off its lines.                          *)
(***************************************************************************)
IsComment(line) == line # <<>> /\ line[1] = "#"
Defines(line, k) ==
    Len(line) > Len(k) /\ SubSeq(line, 1, Len(k)) = k /\ line[Len(k) + 1] = ":"
DefLines(lines, k) == {i \in DOMAIN lines : Defines(lines[i], k)}
TopKeys(lines) == {k \in Keys : DefLines(lines, k) # {}}
DefLine(lines, k) == CHOOSE i \in DefLines(lines, k) : TRUE

\* the contiguous comment lines directly above line j
RECURSIVE BlockAbove(_, _)
BlockAbove(lines, j) ==
    IF j > 1 /\ IsComment(lines[j - 1])
    THEN Append(BlockAbove(lines, j - 1), lines[j - 1])
    ELSE <<>>
\* the comment block of key k in the file, empty when k is not defined
BlockOf(lines, k) ==
    IF k \in TopKeys(lines) THEN BlockAbove(lines, DefLine(lines, k)) ELSE <<>>
Stripped(block) == [i \in DOMAIN block |-> strip(block[i])]
Unmarked(block) == [i \in DOMAIN block |-> strip(Tail(block[i]))]
RECURSIVE JoinWords(_)
JoinWords(block) ==
    IF block = <<>> THEN <<>>
    ELSE IF Len(block) = 1 THEN block[1]
    ELSE block[1] \o <<" ">> \o JoinWords(Tail(block))

\* every line is blank, a comment or the definition of a key; every key is
\* defined once, directly below a comment; every comment is directly above
\* another comment or a definition
EveryKeyCommented(lines) ==
    /\ TopKeys(lines) # {}
    /\ \A i \in DOMAIN lines :
          \/ lines[i] = <<>>
          \/ /\ IsComment(lines[i])
             /\ i < Len(lines)
             /\ IsComment(lines[i + 1]) \/ \E k \in Keys : Defines(lines[i + 1], k)
          \/ /\ \E k \in Keys : Defines(lines[i], k)
             /\ i > 1 /\ IsComment(lines[i - 1])
    /\ \A k \in TopKeys(lines) : Cardinality(DefLines(lines, k)) = 1

(***************************************************************************)
(* Claims.                                                                 *)
(***************************************************************************)
\* the text a write produces from the old file and the mapping, as a file
NewFile(old, settings_json) ==
    LET text == settings_yaml(old.lines, settings_json)
    IN  IF old.exists /\ ~IsExc(text) THEN {File(text.v)} ELSE {}

\* C1: a file that load accepts, written back from the loaded mapping and
\* loaded again, gives a mapping equal to the first, key by key and value by
\* value.
C1_RoundTrip ==
    (w.pc = "done" /\ w.roundtrip /\ load_res.call > w.call)
        => /\ load_res.exc = "none"
           /\ dict_items(load_res.constants) = dict_items(w.settings_json)

\* C2: while a write runs, the settings path holds the complete old content
\* or the complete new content, and that is all a concurrent reader sees.
C2_AtomicReplace ==
    /\ w.pc # "idle" =>
          fs[ConfigFile] \in {w.old} \cup NewFile(w.old, w.settings_json)
    /\ seen.read =>
          seen.file \in {seen.old} \cup NewFile(seen.old, seen.settings_json)

\* C2 witness: a reader has read the old content while the temporary file
\* holds a part of the new text.
C2_Witness ==
    /\ w.pc = "writing" /\ 0 < w.n /\ w.n < Len(w.settings_yaml)
    /\ fs[TmpFile(ConfigFile)].lines # w.settings_yaml
    /\ seen.read /\ seen.file = w.old /\ seen.file # File(w.settings_yaml)

\* C3: a write that fails before the rename leaves the settings file with
\* the content it had before the call.
C3_FailureKeepsTarget ==
    w.pc = "failed" => fs[ConfigFile] = w.old

\* C3 witness: the write failed while writing the temporary file, which is
\* left holding a part of the text.
C3_Witness ==
    /\ w.pc = "failed" /\ w.exc = "OSError" /\ w.old.exists
    /\ 0 < w.n /\ w.n < Len(w.settings_yaml)
    /\ fs[TmpFile(ConfigFile)] = File(SubSeq(w.settings_yaml, 1, w.n))

\* C4: a load that raises leaves the attributes set on Settings as they were
\* before the call (PROGRAM_PATH, which is no entry of the file, aside).
C4_NoPartialState ==
    load_res.exc \notin {"never", "none"}
        => dict_del(attrs, PROGRAM_PATH) = dict_del(load_res.before, PROGRAM_PATH)

\* C5: after successful loads only, the attributes are exactly the keys and
\* formatted values of the file loaded last, so a key set by an earlier load
\* and absent from that file is no longer set.
C5_ReplacesState ==
    (load_res.exc = "none" /\ load_res.ok_so_far)
        => dict_items(dict_del(attrs, PROGRAM_PATH)) = dict_items(load_res.constants)

C7_Case ==
    /\ w.pc \in {"done", "failed"}
    /\ w.old.exists
    /\ EveryKeyCommented(w.old.lines)

\* C7 as stated: the extraction returns N associations, each the lines
\* directly above its key with the marker character stripped.
C7_ExtractStripsMarker ==
    C7_Case
        => /\ w.exc \notin {"IndexError", "AttributeError"}
           /\ dict_keys(w.param_comments) = TopKeys(w.old.lines)
           /\ Len(w.param_comments) = Cardinality(TopKeys(w.old.lines))
           /\ \A k \in TopKeys(w.old.lines) :
                 dict_get(w.param_comments, k) = Unmarked(BlockOf(w.old.lines, k))

\* C7 as amended: the extraction returns N associations, each the lines
\* directly above its key, trimmed of surrounding whitespace and keeping the
\* marker character.
C7_ExtractKeepsMarker ==
    C7_Case
        => /\ w.exc \notin {"IndexError", "AttributeError"}
           /\ dict_keys(w.param_comments) = TopKeys(w.old.lines)
           /\ Len(w.param_comments) = Cardinality(TopKeys(w.old.lines))
           /\ \A k \in TopKeys(w.old.lines) :
                 dict_get(w.param_comments, k) = Stripped(BlockOf(w.old.lines, k))

\* C7 witness: the extraction has run on a file of two keys, each below its
\* own block, one block of two lines.
C7_Witness ==
    /\ C7_Case
    /\ Cardinality(TopKeys(w.old.lines)) >= 2
    /\ \E k \in TopKeys(w.old.lines) : Len(BlockOf(w.old.lines, k)) = 2
    /\ Len(w.param_comments) >= 2

\* C8: the comments handed to the renderer pair every key with the comment
\* block directly above its definition, markers removed, lines joined, the
\* result trimmed.
C8_RenderComments ==
    rendered.exc = "none"
        => /\ dict_keys(rendered.comments) = dict_keys(rendered.constants)
           /\ \A k \in dict_keys(rendered.constants) :
                 dict_get(rendered.comments, k) =
                     strip(JoinWords(Unmarked(BlockOf(rendered.file.lines, k))))

\* C9: for a str value, an always-slash key formats to the empty string or
\* to a string ending with "/", and a never-slash key formats to a string
\* that does not end with "/".
C9_PathSlash ==
    (fmt.pc \in {"once", "twice"} /\ fmt.value.t = "str")
        => LET out == fmt.once.v
               ends == out # <<>> /\ out[Len(out)] = "/"
           IN  /\ fmt.param \in __PATH_WITH_SLASH_PARAMETERS => out = <<>> \/ ends
               /\ fmt.param \in __PATH_WITHOUT_SLASH_PARAMETERS => ~ends

\* C10: formatting a formatted value again changes nothing.
C10_Idempotent ==
    fmt.pc = "twice" => fmt.twice = fmt.once

====
